---- MODULE Spec2Model ----
(***************************************************************************)
(* State-machine model of idc_index/client.py (class IDCClient).           *)
(*                                                                         *)
(* A handle is an IDCClient instance that was returned to a caller.  Each  *)
(* public call (constructor, reset, sql, get) is one action of Spec: the    *)
(* class starts no thread, so a caller observes the state before a call    *)
(* and the state after it returned or raised.  ConcSpec is the program     *)
(* called from several threads: each sql and get call proceeds statement   *)
(* by statement, interleaved with the others.                              *)
(*                                                                         *)
(* _setDataStore and sql read the attribute `index`, which client.py       *)
(* neither assigns nor defines.  indexAttr fixes, for a whole run, what    *)
(* the lookup gives: "missing" (AttributeError, the file as it stands) or  *)
(* "data" (the handle's current table, as the specification describes the  *)
(* table a query runs against).                                            *)
(***************************************************************************)
EXTENDS Integers, Sequences, FiniteSets, TLC

VARIABLES
    handles,    \* sequence of the IDCClient instances held by callers
    cache,      \* the file idc_index.csv.zip next to the module
    s5cmd,      \* where an s5cmd executable can be found on this host
    indexAttr,  \* what the attribute lookup `self.index` resolves to
    last,       \* record of the last call: arguments, steps, outcome
    calls       \* the calls that threads have started on the handles

vars == <<handles, cache, s5cmd, indexAttr, last, calls>>

----------------------------------------------------------------------------
(* Bounds of the model *)

\* number of handles callers hold at the same time
MaxHandles == 2

\* number of calls that threads make on the handles (ConcSpec)
MaxCalls == 3

----------------------------------------------------------------------------
(* Python values *)

PyNone == [kind |-> "None"]
Undefined == [kind |-> "undefined"]     \* an attribute that was never assigned
NotADataFrame == [kind |-> "list"]      \* some object that is no DataFrame
Str(s) == [kind |-> "str", s |-> s]

Range(f) == {f[i] : i \in DOMAIN f}

Columns ==
    {"collection_id", "PatientID", "StudyInstanceUID", "SeriesInstanceUID",
     "Modality", "series_size_MB"}

DataFrame(cols, rows) == [kind |-> "DataFrame", cols |-> cols, rows |-> rows]

Row(c, p, st, se, m, mb) ==
    [collection_id |-> c, PatientID |-> p, StudyInstanceUID |-> st,
     SeriesInstanceUID |-> se, Modality |-> m, series_size_MB |-> mb]

----------------------------------------------------------------------------
(* The catalog archive: a zipped csv file, every cell text *)

RemoteCsv ==
    [present |-> TRUE, readable |-> TRUE,
     rows |-> << Row("A", "P1", "St1", "Se1", "CT", "10"),
                 Row("A", "P2", "St2", "Se2", "MR", "5"),
                 Row("B", "P3", "St3", "Se3", "NA", "20") >>]

\* a cache file left by an earlier release, which held collection A alone
StaleCsv ==
    [present |-> TRUE, readable |-> TRUE,
     rows |-> << Row("A", "P1", "St1", "Se1", "CT", "10"),
                 Row("A", "P2", "St2", "Se2", "MR", "5") >>]

\* a cache file cut short by a download that broke off
PartialCsv == [present |-> TRUE, readable |-> FALSE, rows |-> << >>]

NoFile == [present |-> FALSE, readable |-> FALSE, rows |-> << >>]

Files == {RemoteCsv, StaleCsv, PartialCsv, NoFile}

\* os.path.exists(file_path)
exists(file) == file.present

\* pandas' default na_values that occur in the model
NaValues == {"", "NA", "nan", "NaN"}

\* float(text) for the size cells of the model
ParseFloat(s) ==
    CASE s = "5" -> 5
      [] s = "10" -> 10
      [] s = "20" -> 20
      [] OTHER -> -1

IsFloatText(s) == s \in {"5", "10", "20"}

\* pd.read_csv(dtype=str) then .astype(str).replace("nan", ""): a missing
\* cell is read as NaN, printed as "nan" and replaced by empty text
NormCell(s) ==
    LET asread == IF s \in NaValues THEN "nan" ELSE s
    IN  IF asread = "nan" THEN "" ELSE asread

NormRow(r) == [c \in Columns |-> NormCell(r[c])]

\* lines 112-114: the parsed table, or the error the parse raises
read_csv(file) ==
    IF ~file.readable THEN [err |-> "ParseError", data |-> PyNone]
    ELSE LET txt == [i \in DOMAIN file.rows |-> NormRow(file.rows[i])]
         IN  IF \E i \in DOMAIN txt : ~IsFloatText(txt[i].series_size_MB)
             THEN [err |-> "ValueError", data |-> PyNone]
             ELSE [err |-> "",
                   data |-> DataFrame(Columns,
                       [i \in DOMAIN txt |->
                           [txt[i] EXCEPT !.series_size_MB = ParseFloat(@)]])]

----------------------------------------------------------------------------
(* IDCClient instances *)

\* an instance before __init__ has assigned anything
NewObject ==
    [data |-> Undefined, collection_summary |-> Undefined,
     s5cmd_path |-> Undefined]

\* the attribute lookup self.index (lines 49 and 139).  client.py never
\* assigns or defines `index`; the lookup raises AttributeError unless the
\* class is completed so that `index` names the handle's current table.
index(self) == IF indexAttr = "data" THEN self.data ELSE Undefined

\* DataFrame.groupby("collection_id").agg({"Modality": pd.Series.unique,
\* "series_size_MB": "sum"}): one pass over the rows, one group per key
RECURSIVE agg(_, _)
agg(rows, acc) ==
    IF rows = << >> THEN acc
    ELSE LET r == Head(rows)
             k == r.collection_id
             old == IF k \in DOMAIN acc THEN acc[k]
                    ELSE [Modality |-> << >>, series_size_MB |-> 0]
             new == [Modality |->
                        IF r.Modality \in Range(old.Modality)
                        THEN old.Modality
                        ELSE Append(old.Modality, r.Modality),
                     series_size_MB |->
                        old.series_size_MB + r.series_size_MB]
         IN  agg(Tail(rows),
                 [c \in DOMAIN acc \cup {k} |-> IF c = k THEN new ELSE acc[c]])

GroupedColumns == {"collection_id", "Modality", "series_size_MB"}

\* "first" in place of "sum"
RECURSIVE agg_first(_, _)
agg_first(rows, acc) ==
    IF rows = << >> THEN acc
    ELSE LET r == Head(rows)
             k == r.collection_id
             new == IF k \in DOMAIN acc THEN acc[k]
                    ELSE [Modality |-> << r.Modality >>,
                          series_size_MB |-> r.series_size_MB]
         IN  agg_first(Tail(rows),
                 [c \in DOMAIN acc \cup {k} |-> IF c = k THEN new ELSE acc[c]])

groupby_first(df) ==
    [kind |-> "summary", groups |-> agg_first(df.rows, [c \in {} |-> 0])]

groupby_agg(df) ==
    [kind |-> "summary", groups |-> agg(df.rows, [c \in {} |-> 0])]

\* IDCClient._setDataStore: the instance after the call and the error raised
_setDataStore(self, data) ==
    IF data.kind # "DataFrame"
    THEN [self |-> self, err |-> "AssertionError: data must be a pandas dataframe"]
    ELSE LET assigned == [self EXCEPT !.data = data]
             idx == index(assigned)
         IN  IF idx.kind = "undefined"
             THEN [self |-> assigned, err |-> "AttributeError"]
             ELSE IF ~(GroupedColumns \subseteq idx.cols)
             THEN [self |-> assigned, err |-> "KeyError"]
             ELSE [self |-> [assigned EXCEPT
                                !.collection_summary = groupby_agg(idx)],
                   err |-> ""]

BundledPath == Str("<current_dir>/s5cmd")
AmbientPath == Str("s5cmd")

\* the failure logged and not raised
_get_s5cmd_path_quiet(env) ==
    IF env.bundled THEN [path |-> BundledPath, err |-> ""]
    ELSE IF env.onPath THEN [path |-> AmbientPath, err |-> ""]
    ELSE [path |-> Undefined, err |-> ""]

\* IDCClient._get_s5cmd_path: env.bundled is os.path.exists(s5cmdPath),
\* env.onPath is subprocess.run(["s5cmd", ...]) not raising
_get_s5cmd_path(env) ==
    IF env.bundled THEN [path |-> BundledPath, err |-> ""]
    ELSE IF env.onPath THEN [path |-> AmbientPath, err |-> ""]
    ELSE [path |-> Undefined, err |-> "ValueError"]

\* the refresh flag ignored
NeedDownloadIfAbsent(file, refresh) == ~exists(file)

\* the index fetched on every load
NeedDownloadAlways(file, refresh) == TRUE

\* line 93
NeedDownload(file, refresh) == ~exists(file) \/ refresh

\* urllib.request.urlretrieve(url, file_path): the file afterwards and the
\* error raised, for each way the transfer can go
DownloadOutcomes == {"ok", "unreachable", "broken"}

urlretrieve(file, how) ==
    CASE how = "ok" -> [file |-> RemoteCsv, err |-> ""]
      [] how = "unreachable" -> [file |-> file, err |-> "URLError"]
      [] OTHER -> [file |-> PartialCsv, err |-> "ContentTooShortError"]

Loaded(self, file, err, steps) ==
    [self |-> self, file |-> file, err |-> err, steps |-> steps]

\* line 117: self._setDataStore(data)
reset_set(set, file, steps) == Loaded(set.self, file, set.err, steps)

\* lines 112-117: read and format the data, then set it
reset_read(self, file, parsed, steps) ==
    IF parsed.err # "" THEN Loaded(self, file, parsed.err, steps)
    ELSE reset_set(_setDataStore(self, parsed.data), file,
                   Append(steps, "_setDataStore"))

\* lines 106-117: what follows the download, if the download did not raise
reset_load(self, dl, steps) ==
    IF dl.err # "" THEN Loaded(self, dl.file, dl.err, steps)
    ELSE reset_read(self, dl.file, read_csv(dl.file), Append(steps, "read_csv"))

\* IDCClient.reset: instance, cache file, error and the steps that ran
reset(self, refresh, file, how) ==
    IF NeedDownload(file, refresh)
    THEN reset_load(self, urlretrieve(file, how), << "download" >>)
    ELSE reset_load(self, [file |-> file, err |-> ""], << >>)

\* line 35: self.s5cmd_path = self._get_s5cmd_path()
init_path(loaded, p) ==
    Loaded([loaded.self EXCEPT !.s5cmd_path = p.path], loaded.file, p.err,
           Append(loaded.steps, "_get_s5cmd_path"))

init_loaded(loaded, env) ==
    IF loaded.err # "" THEN loaded ELSE init_path(loaded, _get_s5cmd_path(env))

\* IDCClient.__init__
__init__(data, file, how, env) ==
    IF data.kind = "None"
    THEN init_loaded(reset(NewObject, FALSE, file, how), env)
    ELSE init_loaded(reset_set(_setDataStore(NewObject, data), file,
                               << "_setDataStore" >>), env)

----------------------------------------------------------------------------
(* Queries *)

\* SELECT <cols> FROM index [WHERE col='val' AND ...], or text that the
\* engine cannot parse
Select(star, cols, where) ==
    [kind |-> "select", star |-> star, cols |-> cols, where |-> where]

Malformed == [kind |-> "malformed", star |-> FALSE, cols |-> {}, where |-> << >>]

Term(col, val) == [col |-> col, val |-> val]

\* a WHERE clause no row passes, a SELECT * that selects nothing
MatchesNothing(r, where) == FALSE

\* the WHERE clause: every term holds of the row (terms are joined by AND)
Matches(r, where) == \A i \in DOMAIN where : r[where[i].col] = where[i].val

\* duckdb.query(sql_query).to_df() with `idx` bound to the name index
duckdb_query(sql_query, idx) ==
    IF sql_query.kind = "malformed"
    THEN [err |-> "ParserException", data |-> PyNone]
    ELSE IF \/ ~sql_query.star /\ ~(sql_query.cols \subseteq idx.cols)
            \/ \E i \in DOMAIN sql_query.where :
                    sql_query.where[i].col \notin idx.cols
    THEN [err |-> "BinderException", data |-> PyNone]
    ELSE LET keep(r) == Matches(r, sql_query.where)
             out == IF sql_query.star THEN idx.cols ELSE sql_query.cols
             sel == SelectSeq(idx.rows, keep)
         IN  [err |-> "",
              data |-> DataFrame(out,
                  [i \in DOMAIN sel |-> [c \in out |-> sel[i][c]]])]

\* what a call hands back: the instance it was called on, or a new one
Returned(obj, is_self) == [kind |-> "IDCClient", is_self |-> is_self, obj |-> obj]

Outcome(self, err, ret, steps, result) ==
    [self |-> self, err |-> err, ret |-> ret, steps |-> steps, result |-> result]

\* lines 146-147 and 206-207: self._setDataStore(...); return self
UpdateStore(set, steps, result) ==
    Outcome(set.self, set.err,
            IF set.err = "" THEN Returned(set.self, TRUE) ELSE PyNone,
            steps, result)

\* lines 149 and 209: return IDCClient(data=...)
NewClient(self, made, steps, result) ==
    Outcome(self, made.err,
            IF made.err = "" THEN Returned(made.self, FALSE) ELSE PyNone,
            steps \o made.steps, result)

\* the store updated whatever the flag says
UpdateAlways(in_place) == TRUE

\* line 145: `if in_place:`
UpdateInPlace(in_place) == in_place

\* lines 144-149; the result is a DataFrame, so __init__ loads nothing
sql_apply(self, q, in_place, env, file) ==
    IF q.err # "" THEN Outcome(self, q.err, PyNone, << "duckdb.query" >>, PyNone)
    ELSE IF UpdateInPlace(in_place)
    THEN UpdateStore(_setDataStore(self, q.data),
                     << "duckdb.query", "_setDataStore" >>, q.data)
    ELSE NewClient(self, __init__(q.data, file, "ok", env),
                   << "duckdb.query", "IDCClient" >>, q.data)

\* lines 139-142
sql_run(self, sql_query, idx, in_place, env, file) ==
    IF idx.kind = "undefined"
    THEN Outcome(self, "AttributeError", PyNone, << >>, PyNone)
    ELSE sql_apply(self, duckdb_query(sql_query, idx), in_place, env, file)

\* IDCClient.sql
sql(self, sql_query, context, in_place, env, file) ==
    IF context.kind \notin {"None", "DataFrame"}
    THEN Outcome(self, "AssertionError: context if specified must be a pandas dataframe",
                 PyNone, << >>, PyNone)
    ELSE sql_run(self, sql_query,
                 IF context.kind = "None" THEN index(self) ELSE context,
                 in_place, env, file)

\* the assertion left out
NoArgumentNeeded(collectionId, patientId, studyInstanceUID, seriesInstanceUID) ==
    TRUE

\* lines 166-172: `x is not None` for one of the four arguments
ArgumentSpecified(collectionId, patientId, studyInstanceUID, seriesInstanceUID) ==
    \/ collectionId.kind # "None"
    \/ patientId.kind # "None"
    \/ studyInstanceUID.kind # "None"
    \/ seriesInstanceUID.kind # "None"

\* lines 185-195: one term per argument that is not None.  The value is
\* spliced into the query text between quotes; the texts of the model hold
\* no quote, so the term compares the column with the text itself.
Clause(col, arg) == IF arg.kind # "None" THEN << Term(col, arg.s) >> ELSE << >>

where_clause(collectionId, patientId, studyInstanceUID, seriesInstanceUID) ==
    Clause("collection_id", collectionId) \o Clause("PatientID", patientId)
        \o Clause("StudyInstanceUID", studyInstanceUID)
        \o Clause("SeriesInstanceUID", seriesInstanceUID)

\* line 202: self.sql(query) returns what sql returns with in_place left at
\* its default: an IDCClient instance
SqlCall(self, query, env, file) == sql(self, query, PyNone, FALSE, env, file)

\* lines 204-209: `subset` is what self.sql(query) returned
get_apply(sub, in_place, env, file) ==
    IF sub.err # "" THEN sub
    ELSE IF in_place
    THEN UpdateStore(_setDataStore(sub.self, sub.ret),
                     Append(sub.steps, "_setDataStore"), sub.result)
    ELSE NewClient(sub.self, __init__(sub.ret, file, "ok", env),
                   Append(sub.steps, "IDCClient"), sub.result)

\* IDCClient.get
get(self, collectionId, patientId, studyInstanceUID, seriesInstanceUID, in_place, env, file) ==
    IF ~ArgumentSpecified(collectionId, patientId, studyInstanceUID,
                          seriesInstanceUID)
    THEN Outcome(self, "AssertionError: at least one argument must be specified",
                 PyNone, << >>, PyNone)
    ELSE get_apply(SqlCall(self,
                       Select(TRUE, {},
                           where_clause(collectionId, patientId,
                                        studyInstanceUID, seriesInstanceUID)),
                       env, file),
                   in_place, env, file)

----------------------------------------------------------------------------
(* Inputs of the calls *)

\* the table of the specification's scenario (section 8)
ScenarioTable ==
    DataFrame(Columns,
        << Row("A", "P1", "St1", "Se1", "CT", 10),
           Row("A", "P2", "St2", "Se2", "MR", 5),
           Row("B", "P3", "St3", "Se3", "", 20) >>)

\* a table without the grouped columns
PatientTable ==
    DataFrame({"PatientID"}, << [PatientID |-> "P1"], [PatientID |-> "P9"] >>)

DataArgs == {PyNone, ScenarioTable, PatientTable, NotADataFrame}

ContextArgs == {PyNone, ScenarioTable, NotADataFrame}

Queries ==
    { Select(TRUE, {}, << >>),
      Select(TRUE, {}, << Term("collection_id", "A") >>),
      Select(FALSE, {"PatientID"}, << >>),
      Malformed }

CollectionArgs == {PyNone, Str(""), Str("A")}
PatientArgs == {PyNone, Str(""), Str("P1")}
StudyArgs == {PyNone, Str(""), Str("St1")}
SeriesArgs == {PyNone, Str(""), Str("Se1")}

NoFilters == [collectionId |-> PyNone, patientId |-> PyNone,
              studyInstanceUID |-> PyNone, seriesInstanceUID |-> PyNone]

Hosts == [bundled : BOOLEAN, onPath : BOOLEAN]

----------------------------------------------------------------------------
(* The calls.  A caller makes one call at a time: `last` holds the outcome of
   the call until the caller has taken it (Continue).                        *)

\* `data` is the table argument: the constructor's data, sql's context
Call(op, h, in_place, refresh, filters, query, data, pre, out) ==
    [op |-> op, h |-> h, in_place |-> in_place, refresh |-> refresh,
     filters |-> filters, query |-> query, data |-> data,
     pre |-> pre, file |-> cache,
     err |-> out.err, ret |-> out.ret, steps |-> out.steps,
     result |-> out.result]

NoCall ==
    [op |-> "none", h |-> 0, in_place |-> FALSE, refresh |-> FALSE,
     filters |-> NoFilters, query |-> Malformed, data |-> PyNone,
     pre |-> NewObject, file |-> NoFile,
     err |-> "", ret |-> PyNone, steps |-> << >>, result |-> PyNone]

Idle == last.op = "none"

\* the caller keeps a new handle while it holds fewer than MaxHandles
Keep(hs, ret) ==
    IF ret.kind = "IDCClient" /\ ~ret.is_self /\ Len(hs) < MaxHandles
    THEN Append(hs, ret.obj) ELSE hs

Init ==
    /\ handles = << >>
    /\ cache \in Files
    /\ s5cmd \in Hosts
    /\ indexAttr \in {"missing", "data"}
    /\ last = NoCall
    /\ calls = << >>

\* the attributes kept once for the class: a call on one instance shows on all
EffectShared(h, out, file, call) ==
    /\ handles' = Keep(IF h = 0 THEN handles
                       ELSE [k \in DOMAIN handles |-> out.self], out.ret)
    /\ cache' = file
    /\ last' = call
    /\ UNCHANGED <<s5cmd, indexAttr, calls>>

\* the effect of a call on handle h (0: no handle) on what the callers hold
Effect(h, out, file, call) ==
    /\ handles' = Keep(IF h = 0 THEN handles
                       ELSE [handles EXCEPT ![h] = out.self], out.ret)
    /\ cache' = file
    /\ last' = call
    /\ UNCHANGED <<s5cmd, indexAttr, calls>>

\* IDCClient(data)
Constructed(made, data) == NewClient(NewObject, made, << >>, data)

ConstructCall(data, made) ==
    Effect(0, Constructed(made, data), made.file,
           Call("IDCClient", 0, FALSE, FALSE, NoFilters, Malformed, data,
                NewObject, Constructed(made, data)))

Construct ==
    /\ Idle
    /\ \E data \in DataArgs, how \in DownloadOutcomes :
            ConstructCall(data, __init__(data, cache, how, s5cmd))

\* h.reset(refresh)
ResetDone(r) == Outcome(r.self, r.err, PyNone, r.steps, PyNone)

ResetCall(h, refresh, r) ==
    Effect(h, ResetDone(r), r.file,
           Call("reset", h, TRUE, refresh, NoFilters, Malformed, PyNone,
                handles[h], ResetDone(r)))

Reset ==
    /\ Idle
    /\ \E h \in DOMAIN handles, refresh \in BOOLEAN, how \in DownloadOutcomes :
            ResetCall(h, refresh, reset(handles[h], refresh, cache, how))

\* h.sql(sql_query, context, in_place)
SqlDone(h, q, context, in_place, out) ==
    Effect(h, out, cache,
           Call("sql", h, in_place, FALSE, NoFilters, q, context, handles[h], out))

Sql ==
    /\ Idle
    /\ \E h \in DOMAIN handles, q \in Queries, context \in ContextArgs,
          in_place \in BOOLEAN :
            SqlDone(h, q, context, in_place,
                    sql(handles[h], q, context, in_place, s5cmd, cache))

\* h.get(collectionId, patientId, studyInstanceUID, seriesInstanceUID, in_place)
GetDone(h, filters, in_place, out) ==
    Effect(h, out, cache,
           Call("get", h, in_place, FALSE, filters, Malformed, PyNone,
                handles[h], out))

Get ==
    /\ Idle
    /\ \E h \in DOMAIN handles, c \in CollectionArgs, p \in PatientArgs,
          st \in StudyArgs, se \in SeriesArgs, in_place \in BOOLEAN :
            GetDone(h, [collectionId |-> c, patientId |-> p,
                        studyInstanceUID |-> st, seriesInstanceUID |-> se],
                    in_place,
                    get(handles[h], c, p, st, se, in_place, s5cmd, cache))

\* the caller has taken what the last call returned or raised
Continue ==
    /\ ~Idle
    /\ last' = NoCall
    /\ UNCHANGED <<handles, cache, s5cmd, indexAttr, calls>>

Next == Construct \/ Reset \/ Sql \/ Get \/ Continue

Spec == Init /\ [][Next]_vars

----------------------------------------------------------------------------
(* What the specification says a summary is (section 3): for each collection
   id of the table, the set of its Modality values and the sum of its
   series_size_MB                                                            *)

RECURSIVE SumOver(_, _)
SumOver(rows, I) ==
    IF I = {} THEN 0
    ELSE LET i == CHOOSE j \in I : TRUE
         IN  rows[i].series_size_MB + SumOver(rows, I \ {i})

RowsOf(rows, c) == {i \in DOMAIN rows : rows[i].collection_id = c}

SummaryOf(rows) ==
    [c \in {rows[i].collection_id : i \in DOMAIN rows} |->
        [modalities |-> {rows[i].Modality : i \in RowsOf(rows, c)},
         total_size_MB |-> SumOver(rows, RowsOf(rows, c))]]

\* a stored collection_summary read as such a mapping
SummaryView(summary) ==
    [c \in DOMAIN summary.groups |->
        [modalities |-> Range(summary.groups[c].Modality),
         total_size_MB |-> summary.groups[c].series_size_MB]]

\* the instance's summary is the summary of the instance's own table
Paired(obj) ==
    /\ obj.data.kind = "DataFrame"
    /\ GroupedColumns \subseteq obj.data.cols
    /\ obj.collection_summary.kind = "summary"
    /\ SummaryView(obj.collection_summary) = SummaryOf(obj.data.rows)

Ran(step) == step \in Range(last.steps)

----------------------------------------------------------------------------
(* C1 *)

\* C1: in every state a caller can observe, each handle's collection summary
\* is the summary computed from that handle's current table.
\* Refuted: an in-place sql whose result lacks a grouped column assigns the
\* table and then raises, leaving the summary of the table before.
C1_SummaryOfOwnTable == \A h \in DOMAIN handles : Paired(handles[h])

----------------------------------------------------------------------------
(* C2 *)

\* C2: a get call with in_place=false, whatever its filters and whether it
\* returns or raises, leaves the table and the summary of the handle it was
\* called on as they were before the call.
C2_CopyGetKeepsOriginal ==
    (last.op = "get" /\ ~last.in_place) =>
        /\ handles[last.h].data = last.pre.data
        /\ handles[last.h].collection_summary = last.pre.collection_summary

\* a copy-semantics get whose query ran on a table with rows to drop
C2_Witness ==
    /\ last.op = "get" /\ ~last.in_place
    /\ Ran("duckdb.query")
    /\ last.result.kind = "DataFrame"
    /\ Len(last.result.rows) < Len(last.pre.data.rows)

----------------------------------------------------------------------------
(* C3 *)

\* C3: when a reset or an in-place sql/get call on a handle fails at any
\* step, the handle's table and summary are those it held before the call.
\* Refuted: _setDataStore assigns self.data before the grouping can raise.
C3_FailureKeepsState ==
    (last.op \in {"reset", "sql", "get"} /\ last.in_place /\ last.err # "") =>
        /\ handles[last.h].data = last.pre.data
        /\ handles[last.h].collection_summary = last.pre.collection_summary

----------------------------------------------------------------------------
(* C4 *)

QuerySucceeded == Ran("duckdb.query") /\ last.result.kind = "DataFrame"

\* C4: a sql or get call whose query succeeds returns, with in_place=true,
\* the handle it was called on, whose table is now the result table, and
\* with in_place=false a new handle, distinct from the one it was called
\* on, whose table is the result table.
\* Stated for results that expose the grouped columns, which sql applies.
\* Refuted: get passes the IDCClient that self.sql(query) returned on to
\* _setDataStore or IDCClient(data=...), whose assertion rejects it.
C4_ResultApplied ==
    (/\ last.op \in {"sql", "get"}
     /\ QuerySucceeded
     /\ GroupedColumns \subseteq last.result.cols) =>
        /\ last.ret.kind = "IDCClient"
        /\ last.ret.obj.data = last.result
        /\ last.ret.is_self = last.in_place
        /\ last.in_place => handles[last.h].data = last.result

----------------------------------------------------------------------------
(* C5 *)

Supplied(arg) == arg.kind = "str" /\ arg.s # ""

SomeSupplied(f) ==
    \/ Supplied(f.collectionId) \/ Supplied(f.patientId)
    \/ Supplied(f.studyInstanceUID) \/ Supplied(f.seriesInstanceUID)

Meets(col, arg, r) == Supplied(arg) => r[col] = arg.s

Wanted(f, r) ==
    /\ Meets("collection_id", f.collectionId, r)
    /\ Meets("PatientID", f.patientId, r)
    /\ Meets("StudyInstanceUID", f.studyInstanceUID, r)
    /\ Meets("SeriesInstanceUID", f.seriesInstanceUID, r)

WantedRows(f, rows) == LET keep(r) == Wanted(f, r) IN SelectSeq(rows, keep)

\* C5: with at least one filter supplied and non-empty, the table get
\* produces holds exactly the rows of the current table that equal every
\* supplied non-empty filter; an absent or empty filter constrains nothing.
\* Refuted: get produces no table at all (see C4), and an empty filter is
\* spliced into the predicate as col=''.
C5_GetSelectsExactly ==
    (/\ last.op = "get"
     /\ SomeSupplied(last.filters)
     /\ Paired(last.pre)
     /\ Columns \subseteq last.pre.data.cols) =>
        /\ last.ret.kind = "IDCClient"
        /\ last.ret.obj.data.rows = WantedRows(last.filters, last.pre.data.rows)

----------------------------------------------------------------------------
(* C6 *)

AbsentOrEmpty(arg) == arg.kind = "None" \/ (arg.kind = "str" /\ arg.s = "")

ArgumentError == "AssertionError: at least one argument must be specified"

Rejected ==
    /\ last.err = ArgumentError
    /\ ~Ran("duckdb.query")
    /\ last.ret = PyNone
    /\ handles[last.h] = last.pre

\* C6 as stated: when each of the four filters is absent or empty text, get
\* fails with an argument error before any query is executed, returns no
\* handle and leaves the handle's table and summary unchanged.
\* Refuted: the assertion tests `is not None`; empty text counts as supplied.
C6_AbsentOrEmptyRejected ==
    (/\ last.op = "get"
     /\ AbsentOrEmpty(last.filters.collectionId)
     /\ AbsentOrEmpty(last.filters.patientId)
     /\ AbsentOrEmpty(last.filters.studyInstanceUID)
     /\ AbsentOrEmpty(last.filters.seriesInstanceUID)) => Rejected

\* C6 as amended: when all four filters are absent (None), get fails with
\* the argument error before any query is executed, returns no handle and
\* leaves the handle's table and summary unchanged.
C6_AbsentRejected == (last.op = "get" /\ last.filters = NoFilters) => Rejected

C6_Witness ==
    /\ last.op = "get" /\ last.filters = NoFilters
    /\ last.err = ArgumentError
    /\ Paired(last.pre)

----------------------------------------------------------------------------
(* C7 *)

\* the last call ran _setDataStore to its end and nothing after it failed
SetTableCompleted == Ran("_setDataStore") /\ last.err = ""

\* the instance that _setDataStore of the last call was run on
Target == IF last.op = "reset" THEN handles[last.h] ELSE last.ret.obj

\* C7: immediately after a setTable(T) that completes, the summary has, for
\* every collection id c occurring in T, total_size_MB equal to the sum of
\* series_size_MB over the rows of T with collection_id = c and modalities
\* equal to the set of Modality values of those rows, and it has no entry
\* for an id that does not occur in T.
C7_SummaryAfterSetTable ==
    SetTableCompleted =>
        LET T == Target.data.rows
            S == SummaryView(Target.collection_summary)
            ids == {T[i].collection_id : i \in DOMAIN T}
        IN  /\ DOMAIN S = ids
            /\ \A c \in ids :
                /\ S[c].total_size_MB = SumOver(T, RowsOf(T, c))
                /\ S[c].modalities = {T[i].Modality : i \in RowsOf(T, c)}

\* an in-place sql replaced a table of two collections by the rows of one,
\* a collection of two rows and two modalities
C7_Witness ==
    /\ SetTableCompleted
    /\ last.op = "sql" /\ last.in_place
    /\ Cardinality(DOMAIN last.pre.collection_summary.groups) = 2
    /\ DOMAIN Target.collection_summary.groups = {"A"}
    /\ Target.collection_summary.groups["A"].series_size_MB = 15
    /\ Len(Target.data.rows) = 2

----------------------------------------------------------------------------
(* C8 *)

\* C8: filters only narrow: a get whose query succeeds yields a handle, on
\* which a further get can be made, whose rows are among the rows of the
\* table it was applied to.
\* Refuted: get yields no handle (see C4); the rows its query selected are
\* among the rows of the table, and are lost when get raises.
C8_GetYieldsSubset ==
    (last.op = "get" /\ QuerySucceeded /\ Paired(last.pre)) =>
        /\ last.ret.kind = "IDCClient"
        /\ Range(last.ret.obj.data.rows) \subseteq Range(last.pre.data.rows)

----------------------------------------------------------------------------
(* C9 *)

Ready(obj) ==
    /\ Paired(obj)
    /\ obj.s5cmd_path \in {BundledPath, AmbientPath}
    /\ obj.s5cmd_path = BundledPath => s5cmd.bundled
    /\ obj.s5cmd_path = AmbientPath => s5cmd.onPath

\* C9: every handle returned to a caller (by the constructor, by a copy
\* sql/get call, or by an in-place call returning the same handle) holds a
\* table, the summary of that table and a resolved executable path; if the
\* executable resolves neither bundled nor on the path, construction fails
\* and no handle is returned.
C9_ReturnedIsReady ==
    /\ last.ret.kind = "IDCClient" => Ready(last.ret.obj)
    /\ (~s5cmd.bundled /\ ~s5cmd.onPath) =>
            /\ last.ret = PyNone
            /\ handles = << >>
            /\ last.op = "IDCClient" => last.err # ""

\* a copy-semantics sql returned a new handle
C9_Witness ==
    /\ last.op = "sql" /\ ~last.in_place
    /\ last.ret.kind = "IDCClient" /\ ~last.ret.is_self
    /\ last.ret.obj.s5cmd_path = AmbientPath

----------------------------------------------------------------------------
(* C10 *)

\* the call loads the catalog: reset, or the constructor without data
Loads == last.op = "reset" \/ (last.op = "IDCClient" /\ last.data = PyNone)

Position(step) == CHOOSE i \in DOMAIN last.steps : last.steps[i] = step

\* C10: reset(refresh=true) downloads on every call, also when the cache
\* file exists; reset(refresh=false) downloads if and only if the cache file
\* is absent, and otherwise loads the table from the existing cache; the
\* download, when it happens, precedes the parse and the setTable.
C10_DownloadWhenNeeded ==
    Loads =>
        /\ last.refresh => Ran("download")
        /\ ~last.refresh => (Ran("download") <=> ~last.file.present)
        /\ Ran("download") => Position("download") = 1
        /\ Ran("_setDataStore") =>
                /\ Ran("read_csv")
                /\ Position("read_csv") < Position("_setDataStore")
        /\ (~Ran("download") /\ Ran("read_csv")) =>
                /\ cache = last.file
                /\ last.err = "" => Target.data = read_csv(last.file).data

\* a refreshing reset downloaded although the cache file was there
C10_Witness ==
    /\ last.op = "reset" /\ last.refresh /\ last.file.present
    /\ last.steps = << "download", "read_csv", "_setDataStore" >>
    /\ last.err = ""

----------------------------------------------------------------------------
(* C11 *)

\* C11: _setDataStore validates before it assigns: a table lacking a
\* required column (collection_id, Modality, series_size_MB) is rejected
\* without ever being assigned, so in every reachable state each handle's
\* table exposes the required columns.
\* Refuted: line 46 assigns self.data before the grouping of lines 49-51
\* can raise on a missing column.
C11_TableHasRequiredColumns ==
    \A h \in DOMAIN handles :
        /\ handles[h].data.kind = "DataFrame"
        /\ GroupedColumns \subseteq handles[h].data.cols

----------------------------------------------------------------------------
(* C12 *)

----------------------------------------------------------------------------
(* sql and get called from several threads on handles that exist.  A call is
   numbered in the order it starts; its record holds its arguments, the
   statement it has reached (pc) and its local variables.                    *)

\* a call that has entered sql: line 139 comes next
Started(op, h, in_place, filters, query) ==
    [op |-> op, h |-> h, in_place |-> in_place, filters |-> filters,
     query |-> query, pre |-> handles[h],
     during |-> {t \in DOMAIN calls : calls[t].pc # "done"},
     pc |-> "index", idx |-> PyNone, data |-> PyNone, summary |-> PyNone,
     err |-> "", ret |-> PyNone]

\* the call raises
Raise(c, err) == [c EXCEPT !.pc = "done", !.err = err, !.ret = PyNone]

\* sql returns: to its caller, or to line 202 of get
Return(c, ret) ==
    [c EXCEPT !.pc = IF c.op = "get" THEN "apply" ELSE "done", !.ret = ret]

\* the in_place that sql runs with: get calls self.sql(query)
SqlInPlace(c) == IF c.op = "sql" THEN c.in_place ELSE FALSE

At(t, pc) == t \in DOMAIN calls /\ calls[t].pc = pc

\* a statement that touches only the call's local variables
Local(t, c) ==
    /\ calls' = [calls EXCEPT ![t] = c]
    /\ UNCHANGED <<handles, cache, s5cmd, indexAttr, last>>

\* a statement that assigns to an attribute of self
Store(t, h, self, c) ==
    /\ handles' = [handles EXCEPT ![h] = self]
    /\ calls' = [calls EXCEPT ![t] = c]
    /\ UNCHANGED <<cache, s5cmd, indexAttr, last>>

Begin(c) ==
    /\ Len(calls) < MaxCalls
    /\ calls' = Append(calls, c)
    /\ UNCHANGED <<handles, cache, s5cmd, indexAttr, last>>

\* the handle a thread calls on: IDCClient() on a host without the file
FirstClient(env) == __init__(PyNone, NoFile, "ok", env)

ConcInit ==
    /\ s5cmd \in Hosts
    /\ indexAttr \in {"missing", "data"}
    /\ FirstClient(s5cmd).err = ""
    /\ handles = << FirstClient(s5cmd).self >>
    /\ cache = FirstClient(s5cmd).file
    /\ last = NoCall
    /\ calls = << >>

\* lines 121-135: h.sql(sql_query, in_place=...) entered
StartSql ==
    \E h \in DOMAIN handles, q \in Queries, in_place \in BOOLEAN :
        Begin(Started("sql", h, in_place, NoFilters, q))

GetStarted(h, in_place, f) ==
    IF ~ArgumentSpecified(f.collectionId, f.patientId, f.studyInstanceUID,
                          f.seriesInstanceUID)
    THEN Raise(Started("get", h, in_place, f, Malformed), ArgumentError)
    ELSE Started("get", h, in_place, f,
                 Select(TRUE, {},
                     where_clause(f.collectionId, f.patientId,
                                  f.studyInstanceUID, f.seriesInstanceUID)))

\* lines 151-202: h.get(collectionId, in_place=...) up to its self.sql(query)
StartGet ==
    \E h \in DOMAIN handles, c \in {PyNone, Str("A")}, in_place \in BOOLEAN :
        Begin(GetStarted(h, in_place, [NoFilters EXCEPT !.collectionId = c]))

\* line 139: index = self.index
IndexRead(c, idx) ==
    IF idx.kind = "undefined" THEN Raise(c, "AttributeError")
    ELSE [c EXCEPT !.pc = "query", !.idx = idx]

ReadIndex(t) ==
    /\ At(t, "index")
    /\ Local(t, IndexRead(calls[t], index(handles[calls[t].h])))

\* lines 142-145: data = duckdb.query(sql_query).to_df(); if in_place:
Queried(c, q) ==
    IF q.err # "" THEN Raise(c, q.err)
    ELSE [c EXCEPT !.data = q.data,
                   !.pc = IF UpdateInPlace(SqlInPlace(c)) THEN "assign"
                          ELSE "make"]

Query(t) ==
    /\ At(t, "query")
    /\ Local(t, Queried(calls[t], duckdb_query(calls[t].query, calls[t].idx)))

\* lines 43-46: the assertion, then self.data = data
Assign(t) ==
    /\ At(t, "assign")
    /\ IF calls[t].data.kind # "DataFrame"
       THEN Local(t, Raise(calls[t], "AssertionError: data must be a pandas dataframe"))
       ELSE Store(t, calls[t].h,
                  [handles[calls[t].h] EXCEPT !.data = calls[t].data],
                  [calls[t] EXCEPT !.pc = "group"])

\* lines 49-51, right-hand side: self.index.groupby("collection_id").agg(...)
Grouped(c, idx) ==
    IF idx.kind = "undefined" THEN Raise(c, "AttributeError")
    ELSE IF ~(GroupedColumns \subseteq idx.cols) THEN Raise(c, "KeyError")
    ELSE [c EXCEPT !.pc = "store", !.summary = groupby_agg(idx)]

Group(t) ==
    /\ At(t, "group")
    /\ Local(t, Grouped(calls[t], index(handles[calls[t].h])))

\* line 49, the assignment self.collection_summary = ...; line 147: return self
Stored(self, summary) == [self EXCEPT !.collection_summary = summary]

StoreSummary(t) ==
    /\ At(t, "store")
    /\ Store(t, calls[t].h, Stored(handles[calls[t].h], calls[t].summary),
             Return([calls[t] EXCEPT !.summary = PyNone],
                    Returned(Stored(handles[calls[t].h], calls[t].summary), TRUE)))

\* line 149: return IDCClient(data=data)
Made(c, made) ==
    IF made.err # "" THEN Raise(c, made.err)
    ELSE Return(c, Returned(made.self, FALSE))

MakeClient(t) ==
    /\ At(t, "make")
    /\ Local(t, Made(calls[t], __init__(calls[t].data, cache, "ok", s5cmd)))

\* lines 204-209: get applies what self.sql(query) returned
Applied(t, h, c, out) ==
    Store(t, h, out.self, [c EXCEPT !.pc = "done", !.err = out.err, !.ret = out.ret])

GetApply(t) ==
    /\ At(t, "apply")
    /\ Applied(t, calls[t].h, calls[t],
               get_apply(Outcome(handles[calls[t].h], "", calls[t].ret, << >>,
                                 calls[t].data),
                         calls[t].in_place, s5cmd, cache))

Statement(t) ==
    \/ ReadIndex(t)
    \/ Query(t)
    \/ Assign(t)
    \/ Group(t)
    \/ StoreSummary(t)
    \/ MakeClient(t)
    \/ GetApply(t)

ConcNext == StartSql \/ StartGet \/ \E t \in 1..MaxCalls : Statement(t)

ConcSpec == ConcInit /\ [][ConcNext]_vars

----------------------------------------------------------------------------
(* C13 *)

SelectAll == Select(TRUE, {}, << >>)

DataFrameExpected == "AssertionError: data must be a pandas dataframe"

\* what the call gives when no other call runs: the whole call at once on
\* the handle as it was when the call started
Alone(c) ==
    IF c.op = "sql"
    THEN sql(c.pre, c.query, PyNone, c.in_place, s5cmd, cache)
    ELSE get(c.pre, c.filters.collectionId, c.filters.patientId,
             c.filters.studyInstanceUID, c.filters.seriesInstanceUID,
             c.in_place, s5cmd, cache)

SameAsAlone(c, alone) ==
    /\ c.err = alone.err
    /\ c.ret = alone.ret
    /\ c.data = alone.result

AllCopy == \A t \in DOMAIN calls : ~calls[t].in_place

\* C13: when every call started on a handle is a copy-semantics sql or get
\* call, then under every interleaving of their statements the handle's
\* table and summary stay as they were, and each call that has completed
\* returned or raised what it gives when it runs alone, with the same
\* result table.
C13_CopyCallsDoNotInterfere ==
    AllCopy =>
        \A t \in DOMAIN calls :
            /\ handles[calls[t].h] = calls[t].pre
            /\ calls[t].pc = "done" => SameAsAlone(calls[t], Alone(calls[t]))

\* three copy calls that ran at the same time have completed: two sql calls
\* with different queries returned new handles, a get raised
C13_Witness ==
    /\ Len(calls) = 3 /\ AllCopy
    /\ \A t \in DOMAIN calls : calls[t].pc = "done"
    /\ calls[3].during = {1, 2}
    /\ calls[2].during = {1}
    /\ calls[1].op = "sql" /\ calls[1].ret.kind = "IDCClient"
    /\ calls[1].query = SelectAll
    /\ calls[2].op = "sql" /\ calls[2].ret.kind = "IDCClient"
    /\ Len(calls[2].data.rows) = 2
    /\ calls[3].op = "get" /\ calls[3].err = DataFrameExpected

----------------------------------------------------------------------------
(* C14 *)

Only(col, arg) == [NoFilters EXCEPT ![col] = arg]

\* C14: filters are joined by AND: a get with a collection and a patient
\* filter yields a handle whose rows are the rows common to the get with
\* the collection filter alone and the get with the patient filter alone.
\* Refuted: get yields no handle (see C17); the rows its query selected are
\* that intersection.
C14_FiltersIntersect ==
    (/\ last.op = "get"
     /\ Supplied(last.filters.collectionId)
     /\ Supplied(last.filters.patientId)
     /\ last.filters.studyInstanceUID = PyNone
     /\ last.filters.seriesInstanceUID = PyNone
     /\ Paired(last.pre)
     /\ Columns \subseteq last.pre.data.cols) =>
        /\ last.ret.kind = "IDCClient"
        /\ Range(last.ret.obj.data.rows) =
              Range(WantedRows(Only("collectionId", last.filters.collectionId),
                               last.pre.data.rows))
              \cap Range(WantedRows(Only("patientId", last.filters.patientId),
                                    last.pre.data.rows))

----------------------------------------------------------------------------
(* C15 *)

----------------------------------------------------------------------------
(* C16 *)

\* C16: reset(refresh=false) with the cache file present downloads nothing
\* and leaves the file as it was, and a second such call made right after
\* it ends as the first did and leaves the handle's table and summary, and
\* the file, as the first left them.
C16_ResetIdempotent ==
    (last.op = "reset" /\ ~last.refresh /\ last.file.present) =>
        /\ ~Ran("download")
        /\ cache = last.file
        /\ \A how \in DownloadOutcomes :
              LET again == reset(handles[last.h], FALSE, cache, how)
              IN  /\ again.self = handles[last.h]
                  /\ again.file = cache
                  /\ again.err = last.err
                  /\ again.steps = last.steps

\* the reset brought back the cached table after an in-place sql narrowed it
C16_Witness ==
    /\ last.op = "reset" /\ ~last.refresh /\ last.file.present
    /\ last.err = ""
    /\ last.steps = << "read_csv", "_setDataStore" >>
    /\ Len(last.pre.data.rows) = 2
    /\ Len(handles[last.h].data.rows) = 3

----------------------------------------------------------------------------
(* C17 *)

\* C17: on every path through get, what get hands to _setDataStore or to
\* the constructor is a table, never a handle, so the assertion 'data must
\* be a pandas dataframe' holds on every call that get makes.
\* Refuted: self.sql(query) returns an IDCClient, which get hands on.
C17_GetHandsOnTable == last.op = "get" => last.err # DataFrameExpected

----------------------------------------------------------------------------
(* C18 *)

\* C18: the attribute `index` of an instance is defined, and is the table
\* that _setDataStore stored last (the attribute `data`, which raw()
\* returns): no call ends in the failed lookup of an attribute, and each
\* handle's index is its data.
\* Refuted: client.py assigns no attribute `index` and defines no property
\* of that name; the first _setDataStore raises AttributeError.
C18_IndexIsData ==
    /\ last.err # "AttributeError"
    /\ \A h \in DOMAIN handles : index(handles[h]) = handles[h].data

----------------------------------------------------------------------------
(* C19 *)

AllDone == \A t \in DOMAIN calls : calls[t].pc = "done"

\* no in-place call started while another in-place call on the same handle
\* was in progress
OneInPlaceAtATime ==
    \A t \in DOMAIN calls : \A u \in calls[t].during :
        ~(calls[t].in_place /\ calls[u].in_place /\ calls[t].h = calls[u].h)

\* C19: under every interleaving in which at most one in-place call is in
\* progress on a handle at any time, with any number of copy calls next to
\* it, once all calls have completed the handle's summary is the summary of
\* its final table; a table of one call with the summary of another is
\* left only by two in-place calls on the same handle that overlap.
\* Refuted: one in-place sql alone leaves the table of its result with the
\* summary of the table before (see C11).
C19_SummaryOfFinalTable ==
    (AllDone /\ OneInPlaceAtATime) =>
        \A h \in DOMAIN handles : Paired(handles[h])

====
